---- MODULE Spec2Model ----
(***************************************************************************)
(* Model of withEnvSegregation (src/src/withEnvSegregation.ts): a          *)
(* higher-order component that captures a per-environment table of prop    *)
(* bundles and an environment label, and whose returned selector merges    *)
(* the selected bundle with the caller's props and calls the Component.    *)
(*                                                                         *)
(* JavaScript values are modelled as records [tag, ref, own]:              *)
(*   tag  "undefined" | "object" | "function"                              *)
(*   ref  which object it is (identity): "table", "bundle", "p", "new",    *)
(*        "builtin", "none"                                                *)
(*   own  the object's own enumerable properties, a function from names    *)
(* Prop values stored in a bundle or in p are records [prim, sub]: either  *)
(* a primitive/function reference (sub empty) or a nested object (sub its  *)
(* properties).                                                            *)
(***************************************************************************)
EXTENDS Integers, Sequences, FiniteSets, TLC

VARIABLES
    NODE_ENV,        \* process.env.NODE_ENV, the process-wide indicator
    curriedProps,    \* the caller's bundle table object (shared by reference)
    selectors,       \* the closures returned by withEnvSegregation so far
    lastWrap,        \* arguments and outcome of the latest withEnvSegregation call
    lastRender,      \* arguments and completion of the latest selector call
    lastInvocation,  \* arguments and result of the latest Component call
    earlier,         \* the first Component invocation, kept for comparison
    renders,         \* number of selector calls so far
    invocations      \* number of Component calls so far

vars == <<NODE_ENV, curriedProps, selectors, lastWrap, lastRender,
          lastInvocation, earlier, renders, invocations>>

----------------------------------------------------------------------------
(* Bounds *)

MaxSelectors == 1
MaxRenders == 3

----------------------------------------------------------------------------
(* JavaScript values *)

NoProps == [k \in {} |-> "none"]

Undefined == [tag |-> "undefined", ref |-> "none", own |-> NoProps]

\* The function objects found on Object.prototype (constructor, toString):
\* they have no own enumerable properties.
BuiltinFunction == [tag |-> "function", ref |-> "builtin", own |-> NoProps]

Prim(v) == [prim |-> v, sub |-> NoProps]
Nested(f) == [prim |-> "object", sub |-> f]

Obj(r, f) == [tag |-> "object", ref |-> r, own |-> f]

\* Names every object literal inherits from Object.prototype.
ObjectPrototypeNames == {"constructor", "toString"}

\* NODE_ENV type of the source plus strings outside it.
UNSET == "<undefined>"
RecognizedLabels == {"production", "development", "test"}
\* The values the process-wide indicator takes in the model.
IndicatorValues == {UNSET, "production", "staging"}

\* The env arguments callers pass in the model (UNSET: argument omitted).
EnvArguments == {UNSET, "test", "staging", "constructor"}

----------------------------------------------------------------------------
(* Inputs: bundle tables, runtime props and Component results *)

Bundle(label, f) == Obj(label, f)

\* The table of the README example and of the spec's concrete scenario.
FullTable ==
    Obj("table",
        [production  |-> Bundle("production",  [useRemote |-> Prim("prodFn")]),
         development |-> Bundle("development", [useRemote |-> Prim("devFn")]),
         test        |-> Bundle("test",        [useRemote |-> Prim("stubFn")])])

\* An incomplete table without the development entry.
NoDevTable ==
    Obj("table",
        [production |-> Bundle("production", [useRemote |-> Prim("prodFn")])])

\* An incomplete table whose test bundle is empty and whose development
\* bundle holds a nested value.
SparseTable ==
    Obj("table",
        [development |-> Bundle("development",
                                [useRemote |-> Prim("devFn"),
                                 options   |-> Nested([a |-> "1", b |-> "2"])]),
         test        |-> Bundle("test", NoProps)])

Tables == {FullTable, NoDevTable, SparseTable}

RuntimeProps ==
    { Obj("p", [children |-> Prim("X")]),
      Obj("p", [useRemote |-> Prim("callerFn")]),
      Obj("p", [options |-> Nested([b |-> "3"])]) }

\* What the opaque Component may return.
Elements == {"elementA", "elementB"}

----------------------------------------------------------------------------
(* Expression semantics of lines 10-16 *)

\* Variant: the indicator is read even when an argument is given.
DefaultParameterIgnoresArgument(arg, initializer) == initializer

\* env: undefined | NODE_ENV = process.env.NODE_ENV  (default parameter:
\* the initializer is used exactly when the argument is undefined)
DefaultParameter(arg, initializer) ==
    IF arg = UNSET THEN initializer ELSE arg

\* A property key is a string: undefined is looked up as "undefined".
ToPropertyKey(v) == IF v = UNSET THEN "undefined" ELSE v

\* O[P]: own property, else the property inherited from Object.prototype,
\* else undefined.
Get(O, P) ==
    IF P \in DOMAIN O.own THEN O.own[P]
    ELSE IF P \in ObjectPrototypeNames THEN BuiltinFunction
    ELSE Undefined

ToBoolean(v) == v.tag # "undefined"

\* a || b
LogicalOr(a, b) == IF ToBoolean(a) THEN a ELSE b

\* Variant: the label is not used, the development bundle always is.
ResolveBundleAlwaysDevelopment(table, env) == Get(table, "development")

\* Variant: a third operand, curriedProps["production"], ends the chain.
ResolveBundleAnyEntry(table, env) ==
    LogicalOr(LogicalOr(Get(table, ToPropertyKey(env)),
                        Get(table, "development")),
              Get(table, "production"))

\* Variant: the development bundle fills the keys the selected one lacks,
\* {...curriedProps["development"], ...curriedProps[env]}.
ResolveBundlePerKey(table, env) ==
    LET dev == Get(table, "development")
        sel == Get(table, ToPropertyKey(env))
    IN  IF ToBoolean(sel) /\ ToBoolean(dev)
        THEN [sel EXCEPT !.own = [k \in DOMAIN dev.own \cup DOMAIN sel.own |->
                 IF k \in DOMAIN sel.own THEN sel.own[k] ELSE dev.own[k]]]
        ELSE LogicalOr(sel, dev)

\* curriedProps[env as NODE_ENV] || curriedProps["development"]
ResolveBundle(table, env) ==
    LogicalOr(Get(table, ToPropertyKey(env)), Get(table, "development"))

\* ...source inside an object literal: copies the own enumerable properties
\* of source onto target, later keys overwriting; undefined copies nothing.
CopyDataProperties(target, source) ==
    IF source.tag = "undefined" THEN target
    ELSE [k \in DOMAIN target \cup DOMAIN source.own |->
            IF k \in DOMAIN source.own THEN source.own[k] ELSE target[k]]

\* Variant: a recursive merge, nested objects are combined key by key.
ObjectLiteralDeep(first, second) ==
    LET shallow == CopyDataProperties(CopyDataProperties(NoProps, first), second)
        both    == DOMAIN first.own \cap DOMAIN second.own
    IN  [type  |-> "normal",
         value |-> Obj("new",
            [k \in DOMAIN shallow |->
               IF k \in both /\ first.own[k].prim = "object"
                             /\ second.own[k].prim = "object"
               THEN Nested([j \in DOMAIN first.own[k].sub
                                  \cup DOMAIN second.own[k].sub |->
                              IF j \in DOMAIN second.own[k].sub
                              THEN second.own[k].sub[j]
                              ELSE first.own[k].sub[j]])
               ELSE shallow[k]])]

\* Variant: an undefined operand is dereferenced, which throws.
ObjectLiteralStrict(first, second) ==
    IF first.tag = "undefined" \/ second.tag = "undefined"
    THEN [type |-> "throw", value |-> Undefined]
    ELSE [type  |-> "normal",
          value |-> Obj("new", CopyDataProperties(
                                   CopyDataProperties(NoProps, first), second))]

\* Variant: Object.assign(first, second), which writes into the bundle.
ObjectAssignToBundle(first, second) ==
    [type  |-> "normal",
     value |-> Obj(IF first.tag = "object" THEN first.ref ELSE "new",
                   CopyDataProperties(
                       CopyDataProperties(NoProps, first), second))]

\* Variant: Object.assign(second, first, second), which writes into p.
ObjectAssignToProps(first, second) ==
    [type  |-> "normal",
     value |-> Obj(second.ref,
                   CopyDataProperties(
                       CopyDataProperties(NoProps, first), second))]

\* { ...first, ...second }: a new object; completes normally for every
\* operand.
ObjectLiteral(first, second) ==
    [type  |-> "normal",
     value |-> Obj("new", CopyDataProperties(
                              CopyDataProperties(NoProps, first), second))]

\* Variant: the call expression is evaluated twice.
ComponentCallsTwice(merged) == << merged, merged >>

\* The body of the returned closure evaluates one call expression,
\* Component(merged): the argument lists of the Component calls it makes.
ComponentCalls(merged) == << merged >>

\* The heap after an expression wrote object obj: a new object is not part
\* of the table; a write to a bundle replaces that bundle in the table.
StoreTable(table, obj) ==
    IF obj.ref \in DOMAIN table.own
    THEN [table EXCEPT !.own[obj.ref] = obj]
    ELSE table

\* The caller's props object after an expression wrote object obj.
StoreProps(p, obj) == IF obj.ref = "p" THEN obj ELSE p

----------------------------------------------------------------------------
(* State machine *)

NoRender == [selector |-> 0, label |-> UNSET, stale |-> FALSE,
             p |-> Undefined, pAfter |-> Undefined, merged |-> Undefined,
             type |-> "none", value |-> "none"]
NoInvocation == [props |-> Undefined, result |-> "none"]
NoEarlier == [selector |-> 0, p |-> Undefined, props |-> Undefined,
              between |-> FALSE]

Init ==
    /\ NODE_ENV \in IndicatorValues
    /\ curriedProps \in Tables
    /\ selectors = <<>>
    /\ lastWrap = [env |-> UNSET, type |-> "none"]
    /\ lastRender = NoRender
    /\ lastInvocation = NoInvocation
    /\ earlier = NoEarlier
    /\ renders = 0
    /\ invocations = 0

\* The host changes process.env.NODE_ENV.
SetNodeEnv(v) ==
    /\ v # NODE_ENV
    /\ NODE_ENV' = v
    /\ UNCHANGED <<curriedProps, selectors, lastWrap, lastRender,
                   lastInvocation, earlier, renders, invocations>>

\* withEnvSegregation(Component, curriedProps, env): binds env (default
\* parameter read now) and returns the closure; Component is not called.
WithEnvSegregation(envArg) ==
    /\ Len(selectors) < MaxSelectors
    /\ selectors' = Append(selectors,
                           [Component    |-> "Component",
                            curriedProps |-> curriedProps.ref,
                            env          |-> DefaultParameter(envArg, NODE_ENV)])
    /\ lastWrap' = [env |-> envArg, type |-> "normal"]
    /\ UNCHANGED <<NODE_ENV, curriedProps, lastRender, lastInvocation,
                   earlier, renders, invocations>>

\* (p) => Component({...curriedProps[env] || curriedProps["development"], ...p})
Selector(i, p) ==
    /\ i \in 1..Len(selectors)
    /\ renders < MaxRenders
    /\ LET env        == selectors[i].env
           completion == ObjectLiteral(ResolveBundle(curriedProps, env), p)
           calls      == IF completion.type = "normal"
                         THEN ComponentCalls(completion.value)
                         ELSE << >>
           observed   == [selector  |-> i,
                          label     |-> env,
                          stale     |-> (NODE_ENV # env),
                          p         |-> p,
                          pAfter    |-> StoreProps(p, completion.value),
                          merged    |-> completion.value,
                          type      |-> completion.type,
                          value     |-> "TypeError"]
           this       == [selector |-> i, p |-> p,
                          props |-> completion.value, between |-> FALSE]
       IN  /\ renders' = renders + 1
           /\ curriedProps' = StoreTable(curriedProps, completion.value)
           /\ invocations' = invocations + Len(calls)
           /\ IF calls # << >>
              THEN \E result \in Elements :
                     /\ lastInvocation' = [props  |-> calls[Len(calls)],
                                           result |-> result]
                     \* the closure returns what Component returned
                     /\ lastRender' = [observed EXCEPT !.value = result]
              ELSE /\ lastRender' = observed
                   /\ UNCHANGED lastInvocation
           \* keep the first invocation to compare later renders with
           /\ earlier' = IF earlier.selector = 0 THEN this
                         ELSE [earlier EXCEPT
                                 !.between = @ \/ (p # earlier.p)]
    /\ UNCHANGED <<NODE_ENV, selectors, lastWrap>>

Next ==
    \/ \E v \in IndicatorValues : SetNodeEnv(v)
    \/ \E envArg \in EnvArguments : WithEnvSegregation(envArg)
    \/ \E i \in 1..MaxSelectors, p \in RuntimeProps : Selector(i, p)

Spec == Init /\ [][Next]_vars

----------------------------------------------------------------------------
(* Properties *)

\* Abbreviations for what the latest render was given and what Component
\* received from it.
Rendered   == lastRender.type # "none"
Returned   == lastRender.type = "normal"
Passed     == lastInvocation.props.own
GivenProps == lastRender.p.own
BoundLabel == selectors[lastRender.selector].env
Entries    == DOMAIN curriedProps.own
EntryOf(label) == curriedProps.own[label].own

\* C1: when the bound label has an entry in the table, Component receives
\* {...table[label], ...p}: the keys are the union of the entry's and p's
\* keys, a key of p carries p's value, any other key the entry's value.
C1_SelectedBundleMerged ==
    (Rendered /\ BoundLabel \in Entries) =>
        /\ Returned
        /\ DOMAIN Passed = DOMAIN EntryOf(BoundLabel) \cup DOMAIN GivenProps
        /\ \A k \in DOMAIN Passed :
             Passed[k] = IF k \in DOMAIN GivenProps
                         THEN GivenProps[k]
                         ELSE EntryOf(BoundLabel)[k]

\* The spec's scenario: full table, label "test", p = {children: "X"}.
C1_Witness ==
    /\ Rendered
    /\ curriedProps = FullTable
    /\ BoundLabel = "test"
    /\ GivenProps = [children |-> Prim("X")]
    /\ Passed = [useRemote |-> Prim("stubFn"), children |-> Prim("X")]

\* C2: for the selected entry, or the development entry when the label has
\* none, every key present in that bundle and in p reaches Component with
\* p's value, whole (a nested value of p is not combined with the bundle's).
C2_CallerPropsWin ==
    Rendered =>
        /\ Returned
        /\ LET bundle == IF BoundLabel \in Entries THEN EntryOf(BoundLabel)
                         ELSE IF "development" \in Entries
                              THEN EntryOf("development")
                              ELSE NoProps
           IN  \A k \in DOMAIN bundle \cap DOMAIN GivenProps :
                 /\ k \in DOMAIN Passed
                 /\ Passed[k] = GivenProps[k]

\* The development fallback holds options {a, b}; p overrides it with {b}.
C2_Witness ==
    /\ Rendered
    /\ curriedProps = SparseTable
    /\ BoundLabel = "staging"
    /\ GivenProps = [options |-> Nested([b |-> "3"])]
    /\ Passed = [useRemote |-> Prim("devFn"),
                 options   |-> Nested([b |-> "3"])]

\* C3: whenever the bound label has no entry in the table and the table has
\* a development entry, Component receives {...table.development, ...p}.
C3_FallbackToDevelopment ==
    (Rendered /\ BoundLabel \notin Entries /\ "development" \in Entries) =>
        /\ Returned
        /\ DOMAIN Passed = DOMAIN EntryOf("development") \cup DOMAIN GivenProps
        /\ \A k \in DOMAIN Passed :
             Passed[k] = IF k \in DOMAIN GivenProps
                         THEN GivenProps[k]
                         ELSE EntryOf("development")[k]

\* C4: when neither the bound label nor "development" has an entry,
\* Component receives exactly p's keys and values.
C4_NoBundleContribution ==
    (Rendered /\ BoundLabel \notin Entries /\ "development" \notin Entries) =>
        /\ Returned
        /\ Passed = GivenProps

C4_Witness ==
    /\ Rendered
    /\ curriedProps = NoDevTable
    /\ BoundLabel = "staging"
    /\ GivenProps = [children |-> Prim("X")]
    /\ Passed = [children |-> Prim("X")]

\* C5: the label of a selector is fixed at wrap time: the explicit argument
\* when one is given, else the indicator's value at the moment of the call;
\* no later step changes the label of an existing selector, and every
\* render looks up the label its selector was bound to.
C5_LabelFixedAtWrap ==
    [][ /\ Len(selectors') >= Len(selectors)
        /\ Len(selectors') # Len(selectors) =>
             /\ Len(selectors') = Len(selectors) + 1
             /\ selectors'[Len(selectors')].env =
                  IF lastWrap'.env # UNSET THEN lastWrap'.env ELSE NODE_ENV
        /\ \A i \in 1..Len(selectors) : selectors'[i].env = selectors[i].env
        /\ renders' # renders =>
             lastRender'.label = selectors[lastRender'.selector].env
      ]_vars

\* A selector wrapped with env omitted rendered after the indicator had
\* moved away from the value it held at wrap time.
C5_Witness ==
    /\ Rendered
    /\ lastWrap.env = UNSET
    /\ lastRender.selector = Len(selectors)
    /\ lastRender.stale
    /\ lastRender.label = BoundLabel
    /\ NODE_ENV # BoundLabel

C7_Idempotent ==
    (Rendered /\ earlier.selector = lastRender.selector
              /\ earlier.p = lastRender.p) =>
        /\ Returned
        /\ Passed = earlier.props.own

C7_Witness ==
    /\ Rendered
    /\ renders >= 3
    /\ earlier.selector = lastRender.selector
    /\ earlier.p = lastRender.p
    /\ earlier.between
    /\ Passed = earlier.props.own
    /\ DOMAIN Passed # DOMAIN GivenProps

\* C8: Component has been invoked exactly as often as selectors were
\* rendered (never by a wrap); the latest invocation received the merged
\* prop set of the latest render, which returned that invocation's result.
C8_OneInvocationPerRender ==
    /\ invocations = renders
    /\ Rendered => /\ lastInvocation.props = lastRender.merged
                   /\ lastRender.value = lastInvocation.result

C8_Witness ==
    /\ Len(selectors) >= 1
    /\ renders = 3
    /\ invocations = 3
    /\ lastRender.value = "elementB"
    /\ lastInvocation.result = "elementB"

\* C9: no step changes the bundle table or an existing selector; a wrap or
\* a render leaves the indicator alone; a render leaves the caller's p as it
\* was and passes Component a new object, neither the bundle nor p.
C9_NothingMutated ==
    [][ /\ curriedProps' = curriedProps
        /\ Len(selectors') >= Len(selectors)
        /\ \A i \in 1..Len(selectors) : selectors'[i] = selectors[i]
        /\ Len(selectors') # Len(selectors) => NODE_ENV' = NODE_ENV
        /\ renders' # renders =>
             /\ NODE_ENV' = NODE_ENV
             /\ lastRender'.pAfter = lastRender'.p
             /\ lastInvocation'.props.ref = "new"
      ]_vars

\* Two renders done, the latest one with a bundle that added keys to p.
C9_Witness ==
    /\ renders >= 2
    /\ curriedProps \in Tables
    /\ lastRender.pAfter = lastRender.p
    /\ lastInvocation.props.ref = "new"
    /\ BoundLabel \in Entries
    /\ DOMAIN Passed # DOMAIN GivenProps

\* C10: when the bound label has an entry, nothing of the development
\* bundle reaches Component: a key the selected entry lacks is present only
\* if p has it, with p's value, and a key of the selected entry that p lacks
\* carries the selected entry's value.
C10_FallbackIsPerBundle ==
    (Rendered /\ BoundLabel \in Entries) =>
        /\ Returned
        /\ \A k \in DOMAIN Passed \ DOMAIN EntryOf(BoundLabel) :
             /\ k \in DOMAIN GivenProps
             /\ Passed[k] = GivenProps[k]
        /\ \A k \in DOMAIN EntryOf(BoundLabel) \ DOMAIN GivenProps :
             /\ k \in DOMAIN Passed
             /\ Passed[k] = EntryOf(BoundLabel)[k]

\* The empty test bundle is selected although development has useRemote.
C10_Witness ==
    /\ Rendered
    /\ curriedProps = SparseTable
    /\ BoundLabel = "test"
    /\ "useRemote" \in DOMAIN EntryOf("development")
    /\ GivenProps = [children |-> Prim("X")]
    /\ Passed = [children |-> Prim("X")]

====
